---- MODULE Spec2Model ----
(***************************************************************************)
(* Landmark trading of the gradient-based coverage utilities               *)
(* (src/src/utilities/coverage_utilities.py).                              *)
(*                                                                         *)
(* Lengths are integers counted in units of __OPTIMAL_DISTANCE (0.5), and  *)
(* headings are quarter turns (theta = k*pi/2), so every visibility is the *)
(* rational -n/(1+d2): n the dot product (p-q).v and d2 the squared        *)
(* distance, both integers.  Visibilities are kept exactly, as integers    *)
(* multiplied by SCALE, a common multiple of every denominator 1+d2 and of *)
(* 1/TOLERANCE.                                                            *)
(***************************************************************************)
EXTENDS Integers, Sequences, FiniteSets, TLC

VARIABLES pose, landmarks, pending, done, stale, trades

vars == <<pose, landmarks, pending, done, stale, trades>>

(***************************************************************************)
(* Bounds of the model.                                                    *)
(***************************************************************************)
NUM_LANDMARKS == 3
MaxTrades == 2
MaxIndexes == 2

(***************************************************************************)
(* Program constants.                                                      *)
(***************************************************************************)
\* TOLERANCE = 0.005 = 1/TOLERANCE_INV
TOLERANCE_INV == 200
\* landmarks per row of the layout grid (__sq in the source)
GRID_SIDE == 2

AGENTS_NAMES == {"Axel", "Bo", "Calle"}

\* <<x, y, theta>>: x, y in units of __OPTIMAL_DISTANCE, theta in quarter turns
INITIAL_POSES ==
  [n \in AGENTS_NAMES |->
     CASE n = "Axel"  -> <<0, 2, 0>>
       [] n = "Bo"    -> <<0, -2, 0>>
       [] n = "Calle" -> <<0, 0, 0>>]

\* the poses set_pose may be given
Poses == {<<0, 2, 0>>, <<0, 0, 0>>, <<2, 1, 2>>}

None == <<>>

\* LANDMARKS[index + 1] of the source's layout loop
LandmarkAt(index) == <<index \div GRID_SIDE, index % GRID_SIDE>>

LANDMARKS == [i \in 1..NUM_LANDMARKS |-> LandmarkAt(i - 1)]

Range(s) == {s[i] : i \in 1..Len(s)}

LandmarkSet == Range(LANDMARKS)

(***************************************************************************)
(* Exact arithmetic.                                                       *)
(***************************************************************************)
Dot(u, w) == u[1] * w[1] + u[2] * w[2]

SqNorm(u) == Dot(u, u)

Minus(u, w) == <<u[1] - w[1], u[2] - w[2]>>

RECURSIVE Gcd(_, _)
Gcd(a, b) == IF b = 0 THEN a ELSE Gcd(b, a % b)

Lcm(a, b) == (a \div Gcd(a, b)) * b

RECURSIVE LcmOf(_)
LcmOf(S) == IF S = {} THEN 1
            ELSE LET e == CHOOSE e \in S : TRUE IN Lcm(e, LcmOf(S \ {e}))

\* every denominator 1 + d2 a visibility can have in the model
Denominators ==
  {1 + SqNorm(Minus(<<p[1], p[2]>>, q)) :
     p \in Poses \cup {INITIAL_POSES[n] : n \in AGENTS_NAMES}, q \in LandmarkSet}

SCALE == TOLERANCE_INV * LcmOf(Denominators)

TOLERANCE == SCALE \div TOLERANCE_INV

\* versor_from_angle: (cos theta, sin theta) at theta = k*pi/2
versor_from_angle(theta) ==
  CASE theta % 4 = 0 -> <<1, 0>>
    [] theta % 4 = 1 -> <<0, 1>>
    [] theta % 4 = 2 -> <<-1, 0>>
    [] theta % 4 = 3 -> <<0, -1>>

\* distance_factor, times SCALE, of the distance whose square is d2:
\* (1/D)/(1+(d/D)^2) with lengths in units of D
distance_factor(d2) == SCALE \div (1 + d2)

\* Landmark.visibility, times SCALE
visibility(lmk, x, y, theta) ==
  LET q == lmk
      p == <<x, y>>
      v == versor_from_angle(theta)
      d2 == SqNorm(Minus(p, q))
  IN  -distance_factor(d2) * Dot(Minus(p, q), v)

RECURSIVE SumVisibility(_, _, _, _)
SumVisibility(lms, x, y, theta) ==
  IF lms = <<>> THEN 0
  ELSE visibility(Head(lms), x, y, theta) + SumVisibility(Tail(lms), x, y, theta)

\* Agent.coverage, times SCALE, of an agent with the given pose and landmarks
coverage(ps, lms) == SumVisibility(lms, ps[1], ps[2], ps[3])

(***************************************************************************)
(* Agent.update_landmarks and Agent.trade.  Indexes are the source's,      *)
(* counted from 0.                                                         *)
(***************************************************************************)
\* range(len(self.__landmarks))
IndexRange(lms) == [i \in 1..Len(lms) |-> i - 1]

\* the indexes of range(len) that the filter of update_landmarks keeps
KeptIndexes(lms, indexes_i_remove) ==
  SelectSeq(IndexRange(lms), LAMBDA i : i \notin Range(indexes_i_remove))

\* whether the subscripting self.__landmarks[i] of update_landmarks raises
\* IndexError: it subscripts with the kept indexes only
update_landmarks_raises(lms, indexes_i_remove) ==
  \E k \in 1..Len(KeptIndexes(lms, indexes_i_remove)) :
     KeptIndexes(lms, indexes_i_remove)[k] \notin 0..(Len(lms) - 1)

\* a slip: the indexes are deleted one after the other, each from the
\* collection the earlier deletions left
RECURSIVE DeleteEach(_, _)
DeleteEach(lms, indexes) ==
  IF indexes = <<>> THEN lms
  ELSE LET i == Head(indexes)
           rest == IF i < Len(lms)
                   THEN [k \in 1..(Len(lms) - 1) |-> IF k <= i THEN lms[k] ELSE lms[k + 1]]
                   ELSE lms
       IN  DeleteEach(rest, Tail(indexes))

update_landmarks_reindexing(lms, indexes_i_remove, landmarks_i_add) ==
  DeleteEach(lms, indexes_i_remove) \o landmarks_i_add

\* a slip: the filtered list is never stored, the additions are appended
\* to the collection as it was
update_landmarks_unfiltered(lms, indexes_i_remove, landmarks_i_add) ==
  lms \o landmarks_i_add

\* Agent.update_landmarks: the new value of self.__landmarks
update_landmarks(lms, indexes_i_remove, landmarks_i_add) ==
  LET keep == KeptIndexes(lms, indexes_i_remove)
      filtered_landmarks == [k \in 1..Len(keep) |-> lms[keep[k] + 1]]
  IN  filtered_landmarks \o landmarks_i_add

\* a slip: no tolerance, and a landmark seen as well by the other is given
OtherSeesAsWell(lmk, sp, op) ==
  visibility(lmk, op[1], op[2], op[3]) >= visibility(lmk, sp[1], sp[2], sp[3])

\* the test of the first loop of trade, on a landmark of self
OtherSeesBetter(lmk, sp, op) ==
  visibility(lmk, op[1], op[2], op[3]) > visibility(lmk, sp[1], sp[2], sp[3]) + TOLERANCE

\* a slip: the comparison of the second loop turned round
SelfSeesWorse(lmk, sp, op) ==
  visibility(lmk, sp[1], sp[2], sp[3]) + TOLERANCE < visibility(lmk, op[1], op[2], op[3])

\* the test of the second loop of trade, on a landmark of the other agent
SelfSeesBetter(lmk, sp, op) ==
  visibility(lmk, sp[1], sp[2], sp[3]) > visibility(lmk, op[1], op[2], op[3]) + TOLERANCE

\* the four lists trade builds; sp is self's pose, op the pose passed
indexes_i_remove(mine, sp, op) ==
  SelectSeq(IndexRange(mine), LAMBDA i : OtherSeesBetter(mine[i + 1], sp, op))

\* a slip: the first loop queues with the test of the second
landmarks_you_add_second_test(mine, sp, op) ==
  SelectSeq(mine, LAMBDA lmk : visibility(lmk, sp[1], sp[2], sp[3])
                                 > visibility(lmk, op[1], op[2], op[3]) + TOLERANCE)

landmarks_you_add(mine, sp, op) ==
  SelectSeq(mine, LAMBDA lmk : OtherSeesBetter(lmk, sp, op))

\* a slip: the indexes returned count from 1
indexes_you_remove_from_one(yours, sp, op) ==
  SelectSeq([j \in 1..Len(yours) |-> j],
            LAMBDA j : visibility(yours[j], sp[1], sp[2], sp[3])
                         > visibility(yours[j], op[1], op[2], op[3]) + TOLERANCE)

indexes_you_remove(yours, sp, op) ==
  SelectSeq(IndexRange(yours), LAMBDA j : SelfSeesBetter(yours[j + 1], sp, op))

landmarks_i_add(yours, sp, op) ==
  SelectSeq(yours, LAMBDA lmk : SelfSeesBetter(lmk, sp, op))

\* a slip: the flag is set in the first loop only
trade_success_first_loop(mine, yours, sp, op) ==
  \E i \in 1..Len(mine) :
     visibility(mine[i], op[1], op[2], op[3])
       > visibility(mine[i], sp[1], sp[2], sp[3]) + TOLERANCE

\* a slip: the flag starts as True
trade_success_from_true(mine, yours, sp, op) == TRUE

\* the success flag: set in either loop
trade_success(mine, yours, sp, op) ==
  \/ \E i \in 1..Len(mine) : OtherSeesBetter(mine[i], sp, op)
  \/ \E j \in 1..Len(yours) : SelfSeesBetter(yours[j], sp, op)

\* what one call self.trade(x, y, theta, landmarks) computes, with the
\* arguments and self's state before the call kept beside what it returns
trade(a, b, mine, yours, sp, op) ==
  [from |-> a, to |-> b,
   success |-> trade_success(mine, yours, sp, op),
   indexes_you_remove |-> indexes_you_remove(yours, sp, op),
   landmarks_you_add |-> landmarks_you_add(mine, sp, op),
   indexes_i_remove |-> indexes_i_remove(mine, sp, op),
   landmarks_i_add |-> landmarks_i_add(yours, sp, op),
   self_pose |-> sp, other_pose |-> op,
   pre_self |-> mine, snapshot |-> yours,
   cov_before |-> coverage(sp, mine) + coverage(op, yours)]

(***************************************************************************)
(* The state machine.                                                      *)
(*   pose, landmarks : each agent's __x, __y, __theta and __landmarks      *)
(*   pending         : the results of trade not yet applied to the partner *)
(*   done            : the update_landmarks call that came last, if no     *)
(*                     set_pose came after it                              *)
(*   stale           : some result was applied to a collection other than  *)
(*                     the one trade was given                             *)
(*   trades          : the trades started while another was in flight      *)
(***************************************************************************)
\* INITIAL_LANDMARKS_LISTS for the choice f of an agent per landmark
InitialLists(f) ==
  [n \in AGENTS_NAMES |->
     LET mine == SelectSeq(IndexRange(LANDMARKS), LAMBDA i : f[i + 1] = n)
     IN  [k \in 1..Len(mine) |-> LANDMARKS[mine[k] + 1]]]

InitRest ==
  /\ \E f \in [1..NUM_LANDMARKS -> AGENTS_NAMES] : landmarks = InitialLists(f)
  /\ pending = {}
  /\ done = None
  /\ stale = FALSE
  /\ trades = 0

Init == pose = INITIAL_POSES /\ InitRest

\* the agents at any poses, no two at the same
InitAnyPose ==
  /\ pose \in [AGENTS_NAMES -> Poses]
  /\ \A a, b \in AGENTS_NAMES : a # b => pose[a] # pose[b]
  /\ InitRest

\* one call n.update_landmarks(indexes, add), recorded: by is "trade" (on
\* self, inside trade), "patch" (on the partner, with what trade returned),
\* "again" (the same call once more) or "caller" (any arguments)
Applied(n, indexes, add, by, t) ==
  [to |-> n, indexes |-> indexes, add |-> add,
   pre |-> landmarks[n],
   post |-> update_landmarks(landmarks[n], indexes, add),
   raised |-> update_landmarks_raises(landmarks[n], indexes),
   by |-> by, trade |-> t]

Apply(n, indexes, add, by, t) ==
  /\ landmarks' = [landmarks EXCEPT ![n] = update_landmarks(landmarks[n], indexes, add)]
  /\ done' = <<Applied(n, indexes, add, by, t)>>

\* a.trade(*b.get_pose(), landmarks=b.get_landmarks())
Trade(a, b) ==
  /\ a # b
  /\ LET t == trade(a, b, landmarks[a], landmarks[b], pose[a], pose[b])
     IN  /\ Apply(a, t.indexes_i_remove, t.landmarks_i_add, "trade", <<t>>)
         /\ pending' = pending \cup {t}
  /\ UNCHANGED <<pose, stale>>

SerializedTrade(a, b) == pending = {} /\ Trade(a, b) /\ UNCHANGED trades

ConcurrentTrade(a, b) == trades < MaxTrades /\ Trade(a, b) /\ trades' = trades + 1

FirstTrade(a, b) == done = None /\ SerializedTrade(a, b)

\* b.update_landmarks(remove, add) with the two values trade returned
ApplyPatch(t) ==
  /\ t \in pending
  /\ Apply(t.to, t.indexes_you_remove, t.landmarks_you_add, "patch", <<t>>)
  /\ pending' = pending \ {t}
  /\ stale' = (stale \/ landmarks[t.to] # t.snapshot)
  /\ UNCHANGED <<pose, trades>>

\* the patch that was just applied, delivered a second time
Redeliver ==
  /\ done # None
  /\ done[1].by \in {"patch", "caller"}
  /\ Apply(done[1].to, done[1].indexes, done[1].add, "again", done[1].trade)
  /\ UNCHANGED <<pose, pending, stale, trades>>

\* update_landmarks called with any arguments
Indexes == UNION {[1..k -> 0..NUM_LANDMARKS] : k \in 0..MaxIndexes}

Additions == {<<>>} \cup {<<lmk>> : lmk \in LandmarkSet}

CallerPatch(n, indexes, add) ==
  /\ done = None
  /\ Apply(n, indexes, add, "caller", None)
  /\ UNCHANGED <<pose, pending, stale, trades>>

\* n.set_pose(x, y, theta), between two exchanges
SetPose(n, ps) ==
  /\ pending = {}
  /\ ps # pose[n]
  /\ pose' = [pose EXCEPT ![n] = ps]
  /\ done' = None
  /\ UNCHANGED <<landmarks, pending, stale, trades>>

\* serialized completed trades, poses changing in between
Next ==
  \/ \E a, b \in AGENTS_NAMES : SerializedTrade(a, b)
  \/ \E t \in pending : ApplyPatch(t)
  \/ \E n \in AGENTS_NAMES, ps \in Poses : SetPose(n, ps)

Spec == Init /\ [][Next]_vars

\* trades of several pairs in flight at once
NextConcurrent ==
  \/ \E a, b \in AGENTS_NAMES : ConcurrentTrade(a, b)
  \/ \E t \in pending : ApplyPatch(t)

SpecConcurrent == Init /\ [][NextConcurrent]_vars

\* one exchange, or one call of update_landmarks with any arguments, and
\* then possibly the same call again
NextPatch ==
  \/ \E a, b \in AGENTS_NAMES : FirstTrade(a, b)
  \/ \E t \in pending : ApplyPatch(t)
  \/ \E n \in AGENTS_NAMES, indexes \in Indexes, add \in Additions :
        CallerPatch(n, indexes, add)
  \/ Redeliver

SpecPatch == Init /\ [][NextPatch]_vars

\* serialized trades under poses that never change
NextFixed ==
  \/ \E a, b \in AGENTS_NAMES : SerializedTrade(a, b)
  \/ \E t \in pending : ApplyPatch(t)

SpecFixed == InitAnyPose /\ [][NextFixed]_vars

(***************************************************************************)
(* Ownership.                                                              *)
(***************************************************************************)
Occurrences(lms, lmk) == Cardinality({i \in 1..Len(lms) : lms[i] = lmk})

RECURSIVE SumOver(_, _)
SumOver(S, lmk) ==
  IF S = {} THEN 0
  ELSE LET n == CHOOSE n \in S : TRUE
       IN  Occurrences(landmarks[n], lmk) + SumOver(S \ {n}, lmk)

\* in how many places of the team's collections lmk is
Owners(lmk) == SumOver(AGENTS_NAMES, lmk)

RECURSIVE TotalCount(_)
TotalCount(S) ==
  IF S = {} THEN 0
  ELSE LET n == CHOOSE n \in S : TRUE
       IN  Len(landmarks[n]) + TotalCount(S \ {n})

OwnershipPartition ==
  /\ TotalCount(AGENTS_NAMES) = NUM_LANDMARKS
  /\ UNION {Range(landmarks[n]) : n \in AGENTS_NAMES} = LandmarkSet
  /\ \A lmk \in LandmarkSet : Owners(lmk) = 1

\* the last update_landmarks call completed the exchange of a trade
Completed == pending = {} /\ done # None /\ done[1].by = "patch"

\* the last update_landmarks call was the one inside trade
JustTraded == done # None /\ done[1].by = "trade"

LastTrade == done[1].trade[1]

\* C1: after any sequence of serialized completed trades, with poses
\* changing in between, the team's collections still hold NUM_LANDMARKS
\* landmarks, their union is the global set, and no landmark is in two.
C1_OwnershipConserved == pending = {} => OwnershipPartition

C1_Witness ==
  /\ Completed
  /\ LastTrade.indexes_you_remove # <<>>
  /\ LastTrade.landmarks_you_add # <<>>
  /\ pose # INITIAL_POSES

\* C2: with the poses still those the trade was given, the sum of the two
\* agents' coverage after a completed trade is at least the sum before it,
\* and greater when the trade returned success.
C2_TradeMonotone ==
  (/\ Completed
   /\ pose[LastTrade.from] = LastTrade.self_pose
   /\ pose[LastTrade.to] = LastTrade.other_pose)
  => LET after == coverage(pose[LastTrade.from], landmarks[LastTrade.from])
                  + coverage(pose[LastTrade.to], landmarks[LastTrade.to])
     IN  /\ after >= LastTrade.cov_before
         /\ LastTrade.success => after > LastTrade.cov_before

C2_Witness ==
  /\ Completed
  /\ LastTrade.success
  /\ Len(LastTrade.landmarks_you_add) + Len(LastTrade.indexes_you_remove) >= 2
  /\ coverage(pose[LastTrade.from], landmarks[LastTrade.from])
       + coverage(pose[LastTrade.to], landmarks[LastTrade.to]) > LastTrade.cov_before

\* C3: trade returns success exactly when one of the two lists it returns
\* is not empty; when it returns no success, as it does whenever the pose
\* passed is self's pose, both lists are empty and self's collection is
\* what it was, in the same order.
C3_SuccessIffChanged ==
  JustTraded =>
    /\ LastTrade.success <=>
         (LastTrade.indexes_you_remove # <<>> \/ LastTrade.landmarks_you_add # <<>>)
    /\ ~LastTrade.success =>
         /\ LastTrade.indexes_you_remove = <<>>
         /\ LastTrade.landmarks_you_add = <<>>
         /\ landmarks[LastTrade.from] = LastTrade.pre_self
    /\ LastTrade.self_pose = LastTrade.other_pose => ~LastTrade.success

C3_Witness ==
  /\ JustTraded
  /\ ~LastTrade.success
  /\ LastTrade.self_pose = LastTrade.other_pose
  /\ LastTrade.pre_self # <<>>
  /\ LastTrade.snapshot # <<>>

\* C6: between a trade that returned success and the application of its
\* patch to the partner, some landmark is in two collections or in none;
\* once the patch is applied every landmark is in exactly one again.
C6_NotAtomic ==
  /\ \A t \in pending :
       t.success => \E lmk \in LandmarkSet : Owners(lmk) = 2 \/ Owners(lmk) = 0
  /\ (Completed /\ LastTrade.success) => OwnershipPartition

C6_Witness ==
  \E t \in pending :
     /\ t.success
     /\ \E lmk \in Range(t.landmarks_i_add) : Owners(lmk) = 2
     /\ \E lmk \in Range(t.landmarks_you_add) : Owners(lmk) = 0

\* C8: at the two assertions of trade, as many indexes are marked for
\* removal from self as landmarks are queued for the other agent, and as
\* many indexes are to be removed from the other as landmarks are queued
\* for self.
C8_AssertionsHold ==
  JustTraded =>
    /\ Len(LastTrade.indexes_i_remove) = Len(LastTrade.landmarks_you_add)
    /\ Len(LastTrade.indexes_you_remove) = Len(LastTrade.landmarks_i_add)

C8_Witness ==
  /\ JustTraded
  /\ Len(LastTrade.indexes_i_remove) >= 2
  /\ Len(LastTrade.indexes_you_remove) >= 1

\* C4: update_landmarks given an index beyond the bounds of the agent's
\* collection reports an error to its caller.
C4_StaleIndexReported ==
  done # None =>
    ((\E k \in 1..Len(done[1].indexes) : done[1].indexes[k] >= Len(done[1].pre))
       => done[1].raised)

\* C5: the same patch applied to the same agent a second time leaves the
\* agent's collection as the first application left it.
C5_DuplicateDeliveryHarmless ==
  (done # None /\ done[1].by = "again") => done[1].post = done[1].pre

\* C7: update_landmarks leaves the elements whose position before the call
\* is not among the indexes, in the order they had, followed by the added
\* landmarks in order: an index means a position before the call.
C7_OriginalIndexing ==
  done # None =>
    LET d == done[1]
        n == Len(d.pre)
        Removed == {i \in 0..(n - 1) : \E k \in 1..Len(d.indexes) : d.indexes[k] = i}
        kept == n - Cardinality(Removed)
        NewPlace(i) == i - Cardinality({j \in Removed : j < i})
    IN  /\ landmarks[d.to] = d.post
        /\ Len(d.post) = kept + Len(d.add)
        /\ \A i \in (0..(n - 1)) \ Removed : d.post[NewPlace(i) + 1] = d.pre[i + 1]
        /\ \A j \in 1..Len(d.add) : d.post[kept + j] = d.add[j]

C7_Witness ==
  /\ done # None
  /\ done[1].by = "caller"
  /\ Len(done[1].pre) = 3
  /\ done[1].indexes = <<1, 0>>
  /\ done[1].add # <<>>
  /\ Len(done[1].post) = 2

\* C9: when the trades of several pairs overlap, the team can come to rest
\* with a landmark in two collections or in none, and it does so only
\* after a patch was applied to a collection that had changed since the
\* trade read it.
C9_OnlyOverlapBreaksOwnership ==
  (pending = {} /\ ~OwnershipPartition) => stale

C9_Witness ==
  /\ pending = {}
  /\ stale
  /\ \E lmk \in LandmarkSet : Owners(lmk) = 2 \/ Owners(lmk) = 0
  /\ done # None
  /\ done[1].by = "patch"
  /\ done[1].pre # done[1].trade[1].snapshot

\* a.trade(b's pose, b's landmarks) would return no success now
TradeQuiet(a, b) ==
  ~trade(a, b, landmarks[a], landmarks[b], pose[a], pose[b]).success

\* no trade of any pair would move a landmark, and none in flight does
Settled ==
  /\ \A a, b \in AGENTS_NAMES : a # b => TradeQuiet(a, b)
  /\ \A t \in pending : ~t.success

\* a trade of the pair that has just completed one returns no success
RepeatFails ==
  Completed => /\ TradeQuiet(LastTrade.from, LastTrade.to)
               /\ TradeQuiet(LastTrade.to, LastTrade.from)

\* a step in which a trade returns success
SuccessfulTrade == \E t \in pending' \ pending : t.success

\* the pairs keep trading: a trade that would move a landmark is made in
\* the end, and every patch is applied
FairSpec ==
  /\ SpecFixed
  /\ SF_vars(\E a, b \in AGENTS_NAMES : ~TradeQuiet(a, b) /\ SerializedTrade(a, b))
  /\ WF_vars(\E t \in pending : ApplyPatch(t))

====
